---- MODULE Spec2Model ----
(***************************************************************************)
(* State-machine model of api/chat.js: the handler of one HTTP request.   *)
(* The handler validates the request, verifies the wallet signature,      *)
(* checks NFT ownership on a read-node (ownerOf, then balanceOf) and, if   *)
(* the wallet owns a token, proxies the prompt to the chat provider and    *)
(* relays the provider's chunks to the caller.                             *)
(*                                                                         *)
(* One behaviour is one request.  The request and the environment are      *)
(* drawn in Init; the answers of the collaborators (read-node, provider,   *)
(* outbound socket) are drawn at the step that awaits them.  log is the    *)
(* history of the calls made to the collaborators and of their outcomes    *)
(* in the relay loop (eof, readFailed, write, writeFailed, end).           *)
(*                                                                         *)
(* JavaScript values are tagged records [k |-> kind, v |-> value].         *)
(* Wallet addresses are sequences of characters, so that toLowerCase is    *)
(* computed character by character.  uint256 values are little-endian      *)
(* sequences of 16-bit limbs, so that values above 2^53 - 1 exist.         *)
(* The CORS response headers (lines 13-19) are read by no later code and   *)
(* are not part of the state.                                              *)
(***************************************************************************)
EXTENDS Integers, Sequences, FiniteSets, TLC

VARIABLES pc, req, env, res, recovered, owner, bal, owns, oaResp, reads, log

vars == <<pc, req, env, res, recovered, owner, bal, owns, oaResp, reads, log>>

----------------------------------------------------------------------------
(* Bounds *)

\* number of chunks the provider delivers at most before the stream ends
MaxChunks == 2

----------------------------------------------------------------------------
(* JavaScript values *)

Undefined == [k |-> "undefined"]
Null == [k |-> "null"]
StrV(s) == [k |-> "string", v |-> s]
NumV(n) == [k |-> "number", v |-> n]

\* ToBoolean: undefined, null, "" and 0 are falsy, everything else truthy
Truthy(x) ==
    CASE x.k = "undefined" -> FALSE
      [] x.k = "null" -> FALSE
      [] x.k = "string" -> Len(x.v) > 0
      [] x.k = "number" -> x.v # 0
      [] OTHER -> TRUE

\* a ?? b
Nullish(x) == x.k \in {"undefined", "null"}

LowerChar(c) ==
    CASE c = "A" -> "a"
      [] c = "B" -> "b"
      [] c = "C" -> "c"
      [] c = "D" -> "d"
      [] c = "E" -> "e"
      [] c = "F" -> "f"
      [] OTHER -> c

\* String.prototype.toLowerCase on a sequence of characters
toLowerCase(s) == [i \in 1..Len(s) |-> LowerChar(s[i])]

----------------------------------------------------------------------------
(* Wallets, signatures *)

\* checksummed (mixed-case) addresses as the libraries return them
Wallet1 == <<"A", "b", "1">>
Wallet2 == <<"c", "D", "2">>
Wallet3 == <<"E", "f", "3">>

\* addresses a caller may claim: a checksummed one, its lower-case
\* spelling, its upper-case spelling, and another wallet
ClaimedAddresses == {Wallet1, <<"a", "b", "1">>, <<"A", "B", "1">>, Wallet2}

\* the prefix without its trailing space
expectedMessage_noSpace(input) == "I am requesting an AI response:" \o input

expectedMessage(input) == "I am requesting an AI response: " \o input

\* a non-empty signature string, by what it encodes: structurally invalid,
\* or a signature of signer over msg
MalformedSig == [k |-> "signature", wellFormed |-> FALSE, signer |-> <<>>, msg |-> ""]
Signed(w, m) == [k |-> "signature", wellFormed |-> TRUE, signer |-> w, msg |-> m]

\* what a client signs for the inputs "hi" and "yo"
SignedMessages ==
    {"I am requesting an AI response: hi", "I am requesting an AI response: yo"}

Signatures ==
    {MalformedSig} \cup {Signed(w, m) : w \in {Wallet1, Wallet2}, m \in SignedMessages}

\* recovery over a message the signer did not sign yields an unrelated address
UnrelatedAddress(w) == IF w = Wallet3 THEN Wallet2 ELSE Wallet3

\* ethers.utils.verifyMessage(message, signature): throws on a structurally
\* invalid signature, else returns the checksummed recovered address
verifyMessage(message, sig) ==
    IF ~sig.wellFormed THEN [k |-> "throw"]
    ELSE IF sig.msg = message THEN [k |-> "value", v |-> sig.signer]
    ELSE [k |-> "value", v |-> UnrelatedAddress(sig.signer)]

----------------------------------------------------------------------------
(* uint256 as ethers BigNumber: little-endian 16-bit limbs *)

BN_ZERO == <<0>>
BN_ONE == <<1>>
BN_MAX_SAFE == <<65535, 65535, 65535, 31>>
BN_TWO53 == <<0, 0, 0, 32>>
BN_UINT256_MAX == [i \in 1..16 |-> 65535]

Balances == {BN_ZERO, BN_ONE, BN_MAX_SAFE, BN_TWO53, BN_UINT256_MAX}

BNIsZero(b) == \A i \in 1..Len(b) : b[i] = 0

\* the value needs at most 53 bits: limbs 1..3 are free, limb 4 is below 2^5
BNFits53(b) == \A i \in 1..Len(b) : (i = 4 => b[i] < 32) /\ (i > 4 => b[i] = 0)

\* BigNumber.toNumber(): throws on a value that needs more than 53 bits,
\* else the same integer as a JavaScript number
toNumber(b) == IF BNFits53(b) THEN [k |-> "value", v |-> b] ELSE [k |-> "throw"]

\* n >= 0 instead of n > 0
NumberGtZero_orEqual(n) == TRUE

\* n > 0 for a JavaScript number holding a non-negative integer
NumberGtZero(n) == ~BNIsZero(n)

----------------------------------------------------------------------------
(* UTF-8: TextDecoder.decode on a chunk, and the encoding of a written string *)

REPLACEMENT == 65533

IsCont(b) == b >= 128 /\ b <= 191

\* new TextDecoder().decode(bytes): each call decodes the chunk on its own;
\* an ill-formed or truncated sequence becomes U+FFFD
RECURSIVE decode(_)
decode(bytes) ==
    IF bytes = <<>> THEN <<>>
    ELSE LET b == Head(bytes)
             rest == Tail(bytes)
         IN  IF b < 128 THEN <<b>> \o decode(rest)
             ELSE IF b >= 194 /\ b <= 223 /\ rest # <<>> /\ IsCont(Head(rest))
                  THEN <<(b - 192) * 64 + (Head(rest) - 128)>> \o decode(Tail(rest))
             ELSE <<REPLACEMENT>> \o decode(rest)

\* the bytes res.write(string) puts on the wire
RECURSIVE encode(_)
encode(text) ==
    IF text = <<>> THEN <<>>
    ELSE LET c == Head(text)
         IN  (IF c < 128 THEN <<c>>
              ELSE IF c < 2048 THEN <<192 + (c \div 64), 128 + (c % 64)>>
              ELSE <<224 + (c \div 4096), 128 + ((c \div 64) % 64), 128 + (c % 64)>>)
             \o encode(Tail(text))

\* chunks the provider's stream may deliver: "a", "e-acute", and the two
\* halves of an e-acute split between chunks
Chunks == {<<97>>, <<195, 169>>, <<195>>, <<169>>}

\* the termination marker '\n\n'
TerminationMarker == <<10, 10>>

----------------------------------------------------------------------------
(* The response object *)

NewResponse ==
    [statusCode |-> 200, contentType |-> "none", headersSent |-> FALSE,
     sentStatus |-> 0, json |-> "", detail |-> "", out |-> <<>>,
     ended |-> FALSE]

\* res.setHeader('Content-Type', ...)
setContentType(r, ct) == [r EXCEPT !.contentType = ct]

\* res.status(code).json({error}): sets the status, keeps a content type
\* that is already set, sends the head and the body and ends the response
statusJson(r, code, error) ==
    [r EXCEPT !.statusCode = code,
              !.contentType = IF @ = "none" THEN "application/json" ELSE @,
              !.headersSent = TRUE,
              !.sentStatus = code,
              !.json = error,
              !.ended = TRUE]

\* res.status(200).end()
statusEnd(r, code) ==
    [r EXCEPT !.statusCode = code, !.headersSent = TRUE, !.sentStatus = code,
              !.ended = TRUE]

\* res.write(text): the first write sends the head with the current status
resWrite(r, bytes) ==
    [r EXCEPT !.headersSent = TRUE,
              !.sentStatus = IF r.headersSent THEN @ ELSE r.statusCode,
              !.out = Append(@, bytes)]

\* res.end()
resEnd(r) ==
    [r EXCEPT !.headersSent = TRUE,
              !.sentStatus = IF r.headersSent THEN @ ELSE r.statusCode,
              !.ended = TRUE]

\* a catch that only logs
streamingCatch_logOnly(r) == r

\* the catch of the proxy section: try { res.status(500).json(...) } catch(e) {}
\* once the head is sent, status() only sets the property and json() throws
streamingCatch(r) ==
    IF r.headersSent THEN [r EXCEPT !.statusCode = 500]
    ELSE statusJson(r, 500, "Internal server error")

----------------------------------------------------------------------------
(* Requests and environment *)

Methods == {"OPTIONS", "GET", "POST"}

Contexts ==
    {Undefined} \cup
    {[k |-> "object", nft_contract |-> c, nft_token_id |-> t] :
        c \in {Undefined, StrV("0xC0")},
        t \in {Undefined, Null, NumV(0), NumV(1), StrV("")}}

\* req.body || {}: a missing body is a body with every field undefined
Requests ==
    [method : Methods,
     address : {Undefined} \cup {StrV(a) : a \in ClaimedAddresses},
     signature : {Undefined} \cup Signatures,
     input : {Undefined, StrV("hi")},
     context : Contexts]

Environments ==
    [OPENAI_API_KEY : {Undefined, StrV("sk")},
     RPC_URL : {Undefined, StrV("rpc")}]

\* process.env.RPC_URL || 'https://cloudflare-eth.com'
RPC_URL(e) == IF Truthy(e.RPC_URL) THEN e.RPC_URL ELSE StrV("https://cloudflare-eth.com")

\* a default contract stands in for a missing one
nftContract_default(r) ==
    LET c == IF Truthy(r.context) THEN r.context.nft_contract ELSE r.context
    IN  IF Truthy(c) THEN c ELSE StrV("0xC0")

\* (context && context.nft_contract) || null
nftContract(r) ==
    LET c == IF Truthy(r.context) THEN r.context.nft_contract ELSE r.context
    IN  IF Truthy(c) THEN c ELSE Null

\* || instead of ??: the token id 0 becomes null
nftTokenId_or(r) ==
    LET t == IF Truthy(r.context) THEN r.context.nft_token_id ELSE r.context
    IN  IF Truthy(t) THEN t ELSE Null

\* (context && context.nft_token_id) ?? null
nftTokenId(r) ==
    LET t == IF Truthy(r.context) THEN r.context.nft_token_id ELSE r.context
    IN  IF Nullish(t) THEN Null ELSE t

\* answers of the collaborators
Thrown == [k |-> "throw"]
Value(x) == [k |-> "value", v |-> x]
NotCalled == [k |-> "none"]

OwnerOfAnswers == {Thrown} \cup {Value(w) : w \in {Wallet1, Wallet2}}
BalanceOfAnswers == {Thrown} \cup {Value(b) : b \in Balances}
FetchAnswers ==
    {Thrown,
     Value([ok |-> FALSE, status |-> 401, body |-> TRUE]),
     Value([ok |-> TRUE, status |-> 200, body |-> FALSE]),
     Value([ok |-> TRUE, status |-> 200, body |-> TRUE])}

----------------------------------------------------------------------------
(* The handler *)

Init ==
    /\ pc = "cors"
    /\ req \in Requests
    /\ env \in Environments
    /\ res = NewResponse
    /\ recovered = NotCalled
    /\ owner = NotCalled
    /\ bal = NotCalled
    /\ owns = FALSE
    /\ oaResp = NotCalled
    /\ reads = <<>>
    /\ log = <<>>

\* lines 13-25: CORS headers, then the pre-flight answer
Cors ==
    /\ pc = "cors"
    /\ IF req.method = "OPTIONS"
       THEN res' = statusEnd(res, 200) /\ pc' = "done"
       ELSE res' = res /\ pc' = "basic"
    /\ UNCHANGED <<req, env, recovered, owner, bal, owns, oaResp, reads, log>>

\* && instead of ||: only a request without any of the three is rejected
missingFields_all(r) == ~Truthy(r.address) /\ ~Truthy(r.signature) /\ ~Truthy(r.input)

\* !address || !signature || !input
missingFields(r) == ~Truthy(r.address) \/ ~Truthy(r.signature) \/ ~Truthy(r.input)

\* lines 28-35
BasicChecks ==
    /\ pc = "basic"
    /\ IF req.method # "POST"
       THEN res' = statusJson(res, 405, "Method not allowed") /\ pc' = "done"
       ELSE IF missingFields(req)
       THEN /\ res' = statusJson(res, 400, "Missing required fields: address, signature, input")
            /\ pc' = "done"
       ELSE res' = res /\ pc' = "env"
    /\ UNCHANGED <<req, env, recovered, owner, bal, owns, oaResp, reads, log>>

\* lines 38-45
EnvChecks ==
    /\ pc = "env"
    /\ IF ~Truthy(env.OPENAI_API_KEY)
       THEN /\ res' = statusJson(res, 500, "Server misconfigured (missing OPENAI_API_KEY)")
            /\ pc' = "done"
       ELSE IF ~Truthy(RPC_URL(env))
       THEN /\ res' = statusJson(res, 500, "Server misconfigured (missing RPC_URL)")
            /\ pc' = "done"
       ELSE res' = res /\ pc' = "verify"
    /\ UNCHANGED <<req, env, recovered, owner, bal, owns, oaResp, reads, log>>

\* recovered.toLowerCase() !== address.toLowerCase()
signatureMismatch(rec, address) == toLowerCase(rec) # toLowerCase(address)

\* the catch answers like the mismatch branch
signatureResponse_catch401(r, address) ==
    IF r.k = "throw" \/ signatureMismatch(r.v, address)
    THEN [code |-> 401, error |-> "Signature does not match address"]
    ELSE [code |-> 0, error |-> ""]

\* the try/catch of lines 48-58 on the outcome of verifyMessage: the error
\* response of the stage, or code 0 when the signature is verified
signatureResponse(r, address) ==
    IF r.k = "throw"
    THEN [code |-> 400, error |-> "Invalid signature"]
    ELSE IF signatureMismatch(r.v, address)
    THEN [code |-> 401, error |-> "Signature does not match address"]
    ELSE [code |-> 0, error |-> ""]

\* lines 48-58
VerifySignature ==
    /\ pc = "verify"
    /\ LET r == verifyMessage(expectedMessage(req.input.v), req.signature)
           resp == signatureResponse(r, req.address.v)
       IN  /\ recovered' = r
           /\ IF resp.code # 0
              THEN res' = statusJson(res, resp.code, resp.error) /\ pc' = "done"
              ELSE res' = res /\ pc' = "context"
    /\ log' = Append(log, "verifyMessage")
    /\ UNCHANGED <<req, env, owner, bal, owns, oaResp, reads>>

\* lines 65-70
ContextCheck ==
    /\ pc = "context"
    /\ IF ~Truthy(nftContract(req))
       THEN /\ res' = statusJson(res, 400, "Missing nft_contract in context")
            /\ pc' = "done"
       ELSE res' = res /\ pc' = "setup"
    /\ UNCHANGED <<req, env, recovered, owner, bal, owns, oaResp, reads, log>>

\* lines 72-82 and 103-106: building the provider and the contract object may
\* throw, which the outer catch answers with 500
SetupContract ==
    /\ pc = "setup"
    /\ \E throws \in BOOLEAN :
         IF throws
         THEN /\ res' = statusJson(res, 500, "Failed to verify ownership")
              /\ pc' = "done"
              /\ owns' = owns
         ELSE /\ res' = res
              /\ owns' = FALSE
              /\ pc' = IF ~Nullish(nftTokenId(req)) THEN "ownerOf" ELSE "balanceOf"
    /\ UNCHANGED <<req, env, recovered, owner, bal, oaResp, reads, log>>

\* the owner is not compared with the caller's address
ownerMatches_anyOwner(ans, address) == ans.k = "value" /\ Len(ans.v) > 0

\* owner && owner.toLowerCase() === address.toLowerCase()
ownerMatches(ans, address) ==
    /\ ans.k = "value"
    /\ Len(ans.v) > 0
    /\ toLowerCase(ans.v) = toLowerCase(address)

\* a reverted ownerOf is tried again
CallOwnerOf_retry ==
    /\ pc = "ownerOf"
    /\ \E ans \in OwnerOfAnswers :
         /\ owner' = ans
         /\ owns' = ownerMatches(ans, req.address.v)
         /\ pc' = IF ownerMatches(ans, req.address.v) THEN "ownsCheck"
                  ELSE IF ans.k = "throw" THEN "ownerOf"
                  ELSE "balanceOf"
    /\ log' = Append(log, "ownerOf")
    /\ UNCHANGED <<req, env, res, recovered, bal, oaResp, reads>>

\* lines 82-91
CallOwnerOf ==
    /\ pc = "ownerOf"
    /\ \E ans \in OwnerOfAnswers :
         /\ owner' = ans
         /\ owns' = ownerMatches(ans, req.address.v)
         /\ pc' = IF ownerMatches(ans, req.address.v) THEN "ownsCheck" ELSE "balanceOf"
    /\ log' = Append(log, "ownerOf")
    /\ UNCHANGED <<req, env, res, recovered, bal, oaResp, reads>>

\* the catch of the balance lookup grants
balancePositive_failOpen(ans) ==
    \/ ans.k = "throw"
    \/ toNumber(ans.v).k = "value" /\ NumberGtZero(toNumber(ans.v).v)

\* bal && bal.toNumber && bal.toNumber() > 0, inside the try of lines 92-98
balancePositive(ans) ==
    /\ ans.k = "value"
    /\ toNumber(ans.v).k = "value"
    /\ NumberGtZero(toNumber(ans.v).v)

\* lines 91-99
CallBalanceOf ==
    /\ pc = "balanceOf"
    /\ \E ans \in BalanceOfAnswers :
         /\ bal' = ans
         /\ owns' = balancePositive(ans)
    /\ pc' = "ownsCheck"
    /\ log' = Append(log, "balanceOf")
    /\ UNCHANGED <<req, env, res, recovered, owner, oaResp, reads>>

\* the 403 is sent without the return
OwnsCheck_noReturn ==
    /\ pc = "ownsCheck"
    /\ res' = IF ~owns
              THEN statusJson(res, 403, "NFT ownership check failed - access denied")
              ELSE res
    /\ pc' = "fetch"
    /\ UNCHANGED <<req, env, recovered, owner, bal, owns, oaResp, reads, log>>

\* lines 100-102
OwnsCheck ==
    /\ pc = "ownsCheck"
    /\ IF ~owns
       THEN /\ res' = statusJson(res, 403, "NFT ownership check failed - access denied")
            /\ pc' = "done"
       ELSE res' = res /\ pc' = "fetch"
    /\ UNCHANGED <<req, env, recovered, owner, bal, owns, oaResp, reads, log>>

\* lines 111-130, and 170-173 when fetch rejects
CallOpenAI ==
    /\ pc = "fetch"
    /\ \E ans \in FetchAnswers :
         /\ oaResp' = ans
         /\ IF ans.k = "throw"
            THEN res' = streamingCatch(res) /\ pc' = "done"
            ELSE res' = res /\ pc' = "oaCheck"
    /\ log' = Append(log, "fetch")
    /\ UNCHANGED <<req, env, recovered, owner, bal, owns, reads>>

\* lines 132-142
CheckOaResp ==
    /\ pc = "oaCheck"
    /\ IF ~oaResp.v.ok \/ ~oaResp.v.body
       THEN /\ \E text \in {"upstream body", "<no-body>"} :
                 res' = [statusJson(res, 500, "OpenAI request failed")
                            EXCEPT !.detail = text]
            /\ pc' = "done"
       ELSE /\ res' = setContentType(res, "text/event-stream")
            /\ pc' = "getReader"
    /\ UNCHANGED <<req, env, recovered, owner, bal, owns, oaResp, reads, log>>

\* lines 145-146, and 170-173 when the body has no reader
GetReader ==
    /\ pc = "getReader"
    /\ \E throws \in BOOLEAN :
         IF throws
         THEN res' = streamingCatch(res) /\ pc' = "done"
         ELSE res' = res /\ pc' = "read"
    /\ UNCHANGED <<req, env, recovered, owner, bal, owns, oaResp, reads, log>>

\* the write helper of lines 149-155: a throwing res.write is swallowed
write(r, bytes, throws) == IF throws THEN r ELSE resWrite(r, bytes)

\* lines 158-164, one turn of the loop, and 170-173 when the read rejects
ReadChunk ==
    /\ pc = "read"
    /\ \/ /\ pc' = "finish"
          /\ log' = log \o <<"read", "eof">>
          /\ UNCHANGED <<res, reads>>
       \/ /\ res' = streamingCatch(res)
          /\ pc' = "done"
          /\ log' = log \o <<"read", "readFailed">>
          /\ UNCHANGED reads
       \/ /\ Len(reads) < MaxChunks
          /\ \E value \in Chunks, throws \in BOOLEAN :
               /\ res' = write(res, encode(decode(value)), throws)
               /\ reads' = Append(reads, value)
               /\ log' = log \o <<"read", IF throws THEN "writeFailed" ELSE "write">>
          /\ pc' = "read"
    /\ UNCHANGED <<req, env, recovered, owner, bal, owns, oaResp>>

\* lines 168-169, and 170-173 when the last write throws
FinishStream ==
    /\ pc = "finish"
    /\ \E throws \in BOOLEAN :
         IF throws
         THEN /\ res' = streamingCatch(res)
              /\ log' = Append(log, "writeFailed")
         ELSE /\ res' = resEnd(resWrite(res, TerminationMarker))
              /\ log' = log \o <<"write", "end">>
    /\ pc' = "done"
    /\ UNCHANGED <<req, env, recovered, owner, bal, owns, oaResp, reads>>

Next ==
    \/ Cors
    \/ BasicChecks
    \/ EnvChecks
    \/ VerifySignature
    \/ ContextCheck
    \/ SetupContract
    \/ CallOwnerOf
    \/ CallBalanceOf
    \/ OwnsCheck
    \/ CallOpenAI
    \/ CheckOaResp
    \/ GetReader
    \/ ReadChunk
    \/ FinishStream

Spec == Init /\ [][Next]_vars

----------------------------------------------------------------------------
(* Vocabulary of the properties *)

Called(op) == \E i \in 1..Len(log) : log[i] = op

ReadNodeCalled == Called("ownerOf") \/ Called("balanceOf")

UpstreamCalled == Called("fetch") \/ Called("read")

\* the response with this status has been sent and ended
Responded(code) == res.headersSent /\ res.sentStatus = code /\ res.ended

StreamingStarted == res.contentType = "text/event-stream"

CasePairs ==
    {<<"a", "A">>, <<"b", "B">>, <<"c", "C">>, <<"d", "D">>, <<"e", "E">>, <<"f", "F">>}

SameLetter(c, d) == c = d \/ <<c, d>> \in CasePairs \/ <<d, c>> \in CasePairs

\* equality of two addresses up to the case of their letters
SameAddress(a, b) == Len(a) = Len(b) /\ \A i \in 1..Len(a) : SameLetter(a[i], b[i])

\* ownerOf returned, and the owner is the caller
OwnerConfirmed == owner.k = "value" /\ SameAddress(owner.v, req.address.v)

\* balanceOf returned a balance greater than zero
BalanceConfirmed == bal.k = "value" /\ \E i \in 1..Len(bal.v) : bal.v[i] > 0

\* the signature stage has run and has accepted the caller
SignatureVerified == recovered.k = "value" /\ SameAddress(recovered.v, req.address.v)

\* the signature stage has run and has rejected the caller
SignatureFailed ==
    \/ recovered.k = "throw"
    \/ recovered.k = "value" /\ ~SameAddress(recovered.v, req.address.v)

EntitlementPcs == {"context", "setup", "ownerOf", "balanceOf", "ownsCheck"}

ProxyPcs == {"fetch", "oaCheck", "getReader", "read", "finish"}

----------------------------------------------------------------------------
(* Properties *)

\* C1: fail-closed entitlement.  The chat provider has been called, or the
\* event-stream response has been started, only if ownerOf returned the
\* caller's address or balanceOf returned a balance above zero; a call that
\* reverted or failed has granted nothing.
C1_FailClosed ==
    (UpstreamCalled \/ StreamingStarted \/ pc \in ProxyPcs)
        => (OwnerConfirmed \/ BalanceConfirmed)

\* the provider is called after ownerOf reverted and balanceOf returned 1
C1_Witness ==
    /\ Called("fetch")
    /\ owner.k = "throw"
    /\ bal = Value(BN_ONE)

StageOf(op) ==
    CASE op = "verifyMessage" -> 1
      [] op \in {"ownerOf", "balanceOf"} -> 2
      [] OTHER -> 3

C2_StageOrder ==
    /\ \A i, j \in 1..Len(log) : StageOf(log[i]) < StageOf(log[j]) => i < j
    /\ (ReadNodeCalled \/ pc \in EntitlementPcs) => SignatureVerified
    /\ (UpstreamCalled \/ pc \in ProxyPcs) => (SignatureVerified /\ owns)
    /\ SignatureFailed =>
          /\ Responded(400) \/ Responded(401)
          /\ ~ReadNodeCalled /\ ~UpstreamCalled
    /\ (bal # NotCalled /\ ~owns /\ pc # "ownsCheck") =>
          /\ Responded(403)
          /\ ~UpstreamCalled

C2_NoOperationAfterResponse == res.ended => (log' = log /\ res'.ended)

\* C2: short-circuit sequencing.  The operations of a request occur in the
\* order signature verification, read-node calls, provider calls; a stage
\* starts only after the previous one has succeeded; a failed signature is
\* answered 400 or 401 with no read-node and no provider call, a failed
\* entitlement is answered 403 with no provider call, and once the response
\* has been ended no further operation occurs.
C2_Sequencing == []C2_StageOrder /\ [][C2_NoOperationAfterResponse]_vars

\* an entitlement failure after a verified signature and both read-node calls
C2_Witness ==
    /\ pc = "done"
    /\ Responded(403)
    /\ log = <<"verifyMessage", "ownerOf", "balanceOf">>

\* C3: once the signature stage has run, the address it recovered is the one
\* recovered over 'I am requesting an AI response: ' + input; when recovery
\* succeeded the stage has accepted the caller exactly if that address equals
\* the claimed one up to case, and otherwise the response is 401.
C3_SignatureVerification ==
    recovered # NotCalled =>
        LET rec == IF ~req.signature.wellFormed THEN Thrown
                   ELSE IF req.signature.msg = "I am requesting an AI response: " \o req.input.v
                   THEN Value(req.signature.signer)
                   ELSE Value(UnrelatedAddress(req.signature.signer))
            accepted == ~(pc = "done" /\ res.json \in {"Invalid signature", "Signature does not match address"})
        IN  /\ recovered = rec
            /\ rec.k = "value" =>
                  /\ accepted <=> SameAddress(rec.v, req.address.v)
                  /\ ~SameAddress(rec.v, req.address.v) => Responded(401)

\* accepted although the claimed address is spelled in another case
C3_Witness ==
    /\ pc = "context"
    /\ recovered.k = "value"
    /\ recovered.v # req.address.v
    /\ SameAddress(recovered.v, req.address.v)

\* C4: when signature recovery itself fails, the response is the 400
\* 'Invalid signature', not the 401 of a mismatch, and no read-node call and
\* no provider call is made.
C4_MalformedSignature ==
    recovered.k = "throw" =>
        /\ pc = "done"
        /\ Responded(400)
        /\ res.json = "Invalid signature"
        /\ ~ReadNodeCalled
        /\ ~UpstreamCalled

C4_Witness ==
    /\ recovered.k = "throw"
    /\ req.signature = MalformedSig
    /\ Responded(400)

\* a field of the body is absent
MissingAny ==
    req.address = Undefined \/ req.signature = Undefined \/ req.input = Undefined

\* C5 as stated: every request missing address, signature or input is
\* answered 400, and makes no network call.
C5_Original ==
    MissingAny =>
        /\ log = <<>>
        /\ pc = "done" => Responded(400)

\* C5, amended: every POST request missing address, signature or input is
\* answered 400; a request of any method missing one of them stops at the
\* basic checks and makes no network call.
C5_MissingFields ==
    MissingAny =>
        /\ log = <<>>
        /\ pc \in {"cors", "basic", "done"}
        /\ (pc = "done" /\ req.method = "POST") => Responded(400)

\* a POST with address and signature but no input, answered 400
C5_Witness ==
    /\ req.method = "POST"
    /\ req.address # Undefined
    /\ req.signature # Undefined
    /\ req.input = Undefined
    /\ Responded(400)

\* the context carries a token id (0 and the empty string included)
TokenIdSupplied ==
    req.context.k = "object" /\ req.context.nft_token_id.k \in {"number", "string"}

\* C6: with a token id in the context (0 included) ownerOf is queried before
\* anything else of the entitlement stage, and when it returns the caller's
\* address (up to case) entitlement is granted at once: balanceOf is not
\* called, the request is not denied and the handler goes on to the provider.
C6_OwnerOfGrants ==
    /\ (TokenIdSupplied /\ (Called("balanceOf") \/ pc \in {"balanceOf", "ownsCheck"} \/ UpstreamCalled))
          => (Len(log) >= 2 /\ log[2] = "ownerOf")
    /\ OwnerConfirmed =>
          /\ owns
          /\ bal = NotCalled
          /\ ~Called("balanceOf")
          /\ ~Responded(403)
          /\ pc = "ownsCheck" \/ pc \in ProxyPcs \/ Called("fetch")

\* token id 0, the owner spelled in another case than the claimed address
C6_Witness ==
    /\ req.context.k = "object"
    /\ req.context.nft_token_id = NumV(0)
    /\ OwnerConfirmed
    /\ owner.v # req.address.v
    /\ Called("fetch")

\* C7 as stated: whenever ownerOf was skipped, failed or returned another
\* owner, balanceOf is called, and a positive balance grants entitlement.
C7_Original ==
    /\ (pc = "ownsCheck" /\ ~OwnerConfirmed) => Called("balanceOf")
    /\ BalanceConfirmed => (owns /\ ~Responded(403))

\* C8: when ownerOf, if queried, returned another owner and balanceOf
\* returned zero, entitlement is denied: the response is 403 and the
\* provider is never called.
C8_Denied ==
    ((owner = NotCalled \/ (owner.k = "value" /\ ~SameAddress(owner.v, req.address.v)))
      /\ bal.k = "value" /\ (\A i \in 1..Len(bal.v) : bal.v[i] = 0))
        => /\ ~owns
           /\ ~UpstreamCalled
           /\ pc \in {"ownsCheck", "done"}
           /\ pc = "done" => (Responded(403) /\ ~StreamingStarted)

\* ownerOf returned another wallet, balanceOf returned 0, answered 403
C8_Witness ==
    /\ owner.k = "value"
    /\ bal = Value(BN_ZERO)
    /\ Responded(403)

\* C9 as stated: when ownerOf or balanceOf fails, the response is 500.
C9_Original ==
    ((owner.k = "throw" \/ bal.k = "throw") /\ pc = "done") => Responded(500)

\* C9, amended: a failed read-node call is treated as inconclusive and never
\* answered 500 by the entitlement stage: after a failed ownerOf the handler
\* calls balanceOf, after a failed balanceOf entitlement is denied with 403
\* and the provider is not called; the 500 'Failed to verify ownership' is
\* sent only when no read-node call was made.
C9_ReadNodeFailure ==
    /\ owner.k = "throw" => (pc = "balanceOf" \/ Called("balanceOf"))
    /\ bal.k = "throw" =>
          /\ ~owns
          /\ ~UpstreamCalled
          /\ pc \in {"ownsCheck", "done"}
          /\ pc = "done" => Responded(403)
    /\ res.json = "Failed to verify ownership" => ~ReadNodeCalled

\* both read-node calls failed and the request is answered 403
C9_Witness ==
    /\ owner.k = "throw"
    /\ bal.k = "throw"
    /\ Responded(403)

\* C10: when the call to the provider fails or the provider answers with a
\* non-success status, the response is 500 and nothing of a streaming
\* response exists: no event-stream content type, no chunk read or
\* forwarded, no termination marker.
C10_UpstreamFailure ==
    (oaResp.k = "throw" \/ (oaResp.k = "value" /\ ~oaResp.v.ok)) =>
        /\ pc \in {"oaCheck", "done"}
        /\ pc = "done" => (Responded(500) /\ res.contentType = "application/json")
        /\ ~StreamingStarted
        /\ res.out = <<>>
        /\ reads = <<>>
        /\ ~Called("read")

\* the provider answered 401 and the caller got the 500
C10_Witness ==
    /\ oaResp.k = "value"
    /\ ~oaResp.v.ok
    /\ Responded(500)
    /\ res.json = "OpenAI request failed"

\* C11 as stated: when the provider's stream delivered its chunks and then
\* ended, with every write to the caller accepted, the caller has received
\* exactly those chunks, in order and once each, then one termination
\* marker, and the response is ended; the marker is written only after the
\* provider's stream ended.
C11_Original ==
    /\ (Called("eof") /\ ~Called("writeFailed") /\ pc = "done") =>
          /\ res.out = reads \o <<TerminationMarker>>
          /\ res.ended
    /\ (\E i \in 1..Len(res.out) : res.out[i] = TerminationMarker) => Called("eof")

\* C12 as stated: when a read of the provider's stream fails after chunks
\* have been forwarded, the forwarded bytes stay as they are, no error
\* content is written, and the handler ends the caller's response.
C12_Original ==
    (Called("readFailed") /\ res.out # <<>> /\ pc = "done") =>
        /\ \A i \in 1..Len(res.out) : \E c \in Chunks : res.out[i] = encode(decode(c))
        /\ res.json = ""
        /\ res.ended

\* C13 as stated: after a write to the caller has failed, the handler makes
\* no further read of the provider's stream and no further write.
C13_Original ==
    \A i, j \in 1..Len(log) :
        (i < j /\ log[i] = "writeFailed") => log[j] \notin {"read", "write", "writeFailed"}

\* the proxy session of the request, read off the handler's position and
\* history
Session ==
    IF ~Called("fetch") THEN "Idle"
    ELSE IF pc = "oaCheck" THEN "Connecting"
    ELSE IF ~StreamingStarted THEN "ConnectFailed"
    ELSE IF pc \in {"getReader", "read", "finish"} THEN "Streaming"
    ELSE IF Called("end") THEN "Completed"
    ELSE "StreamError"

\* the transitions of the session; a rejected fetch passes through
\* Connecting inside its step
SessionTransitions ==
    {<<"Idle", "Connecting">>, <<"Idle", "ConnectFailed">>,
     <<"Connecting", "ConnectFailed">>, <<"Connecting", "Streaming">>,
     <<"Streaming", "Completed">>, <<"Streaming", "StreamError">>}

C14_Step ==
    /\ Session' = Session \/ <<Session, Session'>> \in SessionTransitions
    /\ StreamingStarted => (res'.statusCode = 200 /\ res'.json = "")

\* C14 as stated: the session only moves Idle -> Connecting ->
\* (ConnectFailed | Streaming) -> (Completed | StreamError) and never leaves
\* a terminal state, and once the event-stream headers are set the handler
\* neither sends nor attempts an error status.
C14_Original == [][C14_Step]_vars

\* C15 as stated: when the handler has returned, one response has been sent
\* and ended.
C15_Original == pc = "done" => (res.headersSent /\ res.sentStatus # 0 /\ res.ended)

\* the context is absent or has no nft_contract
NoContract == req.context = Undefined \/ req.context.nft_contract = Undefined

\* C16 as stated: a request whose context is absent or lacks nft_contract is
\* answered 400 and makes no read-node call and no provider call.
C16_Original ==
    NoContract =>
        /\ ~ReadNodeCalled
        /\ ~UpstreamCalled
        /\ pc = "done" => Responded(400)

\* C16, amended: a request whose context is absent or lacks nft_contract
\* makes no read-node call and no provider call and never gets past the
\* context check; when it is a POST with all fields, the server is
\* configured and its signature is verified, it is answered 400 'Missing
\* nft_contract in context'.
C16_MissingContract ==
    NoContract =>
        /\ ~ReadNodeCalled
        /\ ~UpstreamCalled
        /\ pc \in {"cors", "basic", "env", "verify", "context", "done"}
        /\ (pc = "done" /\ SignatureVerified) =>
              (Responded(400) /\ res.json = "Missing nft_contract in context")

\* a verified caller whose context has a token id but no contract
C16_Witness ==
    /\ SignatureVerified
    /\ req.context.k = "object"
    /\ req.context.nft_contract = Undefined
    /\ req.context.nft_token_id = NumV(1)
    /\ Responded(400)

\* the number of calls of op made so far
Count(op) == Cardinality({i \in 1..Len(log) : log[i] = op})

\* the entitlement check has run to its decision
EntitlementDecided ==
    pc = "ownsCheck" \/ pc \in ProxyPcs \/ UpstreamCalled \/ Responded(403)

C19_Original ==
    (bal.k = "value" /\ ~(\A i \in 1..Len(bal.v) : bal.v[i] = 0)) =>
        /\ owns
        /\ pc = "done" => ~Responded(403)

\* C20 as stated: with every write accepted, the bytes written to the
\* caller for each chunk are the bytes received in that chunk.
C20_Original ==
    (pc \in {"read", "finish"} /\ ~Called("writeFailed")) => res.out = reads

====
